---- MODULE Spec2Model ----
(***************************************************************************)
(* The SLA dashboard of streamlit_app.py as a state machine.               *)
(*                                                                         *)
(* One step is one run of the script: the first run of a session, a plain  *)
(* rerun, a rerun after the user changed one sidebar widget, or a rerun    *)
(* after the user pressed "Reset Filters".  A run loads the (cached) data  *)
(* frame, initialises or resets st.session_state, reads the widgets,       *)
(* filters the data frame and computes every table the page shows.         *)
(*                                                                         *)
(* Columns are modelled as the values pandas holds after read_csv: labels  *)
(* are strings, a missing label is NaN, a timestamp is a tick count and a  *)
(* missing timestamp is NaT.  Lists of distinct labels are sets, since the *)
(* script only ever tests membership in them.  The column "To Do Dt" is    *)
(* parsed by load_data and never read again, and the key 'reset' of the    *)
(* session state is written and never read; both are left out.            *)
(***************************************************************************)
EXTENDS Integers, Sequences, FiniteSets

\* ---------------------------------------------------------------- bounds
MaxRows == 2
MaxTs == 2
TicksPerDay == 2

\* ---------------------------------------------------------------- values
NaN == "NaN"
NaT == -1
NaNNum == -1
BlankCell == -2
GarbageCell == -3

PriorityLabels == {"High", "Low"}
AssigneeLabels == {"Ali", "Siti"}
SubCategoryLabels == {"Drain"}
BoolCells == {"True", "False", NaN}
Timestamps == 0 .. MaxTs
Days == 0 .. (MaxTs \div TicksPerDay)
RawDateCells == Timestamps \cup {BlankCell, GarbageCell}

VARIABLES df, hasSubCol, session, chosen, event, outcome, filtered_df, view

vars == <<df, hasSubCol, session, chosen, event, outcome, filtered_df, view>>

\* ------------------------------------------------------- pandas helpers
\* pd.to_datetime(errors='coerce') on one cell: what does not parse is NaT.
to_datetime(cell) == IF cell >= 0 THEN cell ELSE NaT

\* Whatever is not True taken as a failure.
map_status_else_fail(cell) == IF cell = "True" THEN "PASS" ELSE "FAIL"

\* Series.map({True: "PASS", False: "FAIL"}) on one cell: no key, NaN.
map_status(cell) ==
    IF cell = "True" THEN "PASS" ELSE IF cell = "False" THEN "FAIL" ELSE NaN

\* load_data: the two derived status columns and the coerced date column.
load_row(r) ==
    [priority |-> r.priority,
     assignTo |-> r.assignTo,
     subCategory |-> r.subCategory,
     dateCreated |-> to_datetime(r.dateCreated),
     respMet |-> r.respMet,
     resolMet |-> r.resolMet,
     responseTime |-> r.responseTime,
     resolutionTime |-> r.resolutionTime,
     respStatus |-> map_status(r.respMet),
     resolStatus |-> map_status(r.resolMet)]

load_data(csv) == [i \in 1 .. Len(csv) |-> load_row(csv[i])]

\* Series.unique() and Series.dropna() of a column, as sets of values.
unique(d, col) == {d[i][col] : i \in 1 .. Len(d)}

dropna(S) == S \ {NaN}

\* A missing timestamp taken as the first day.
to_date_fill(ts) == IF ts = NaT THEN 0 ELSE ts \div TicksPerDay

\* Timestamp.date(); NaT.date() is NaT.
to_date(ts) == IF ts = NaT THEN NaT ELSE ts \div TicksPerDay

\* Series.min() / Series.max() of a datetime column skip NaT; NaT if none.
ts_min(d) ==
    LET S == unique(d, "dateCreated") \ {NaT}
    IN IF S = {} THEN NaT ELSE CHOOSE x \in S : \A y \in S : x <= y

ts_max(d) ==
    LET S == unique(d, "dateCreated") \ {NaT}
    IN IF S = {} THEN NaT ELSE CHOOSE x \in S : \A y \in S : x >= y

\* Series.isin(values).
isin(v, values) == v \in values

\* An object column compared with a scalar: a null on either side is False.
cmp_ge(x, y) == IF x = NaT \/ y = NaT THEN FALSE ELSE x >= y

\* The upper bound taken as exclusive.
cmp_lt(x, y) == IF x = NaT \/ y = NaT THEN FALSE ELSE x < y

cmp_le(x, y) == IF x = NaT \/ y = NaT THEN FALSE ELSE x <= y

\* ------------------------------------------------------- session state
\* st.session_state before the first run: no key is set.
EmptySession ==
    [initialized |-> FALSE, priorities |-> {}, assignees |-> {},
     date_range |-> <<>>, subcategories |-> {}]

\* The initialisation block run without its guard.
needs_init_always(ss) == TRUE

\* The four selection values of a session state.
Selection(ss) == <<ss.priorities, ss.assignees, ss.date_range, ss.subcategories>>

\* No widget value came with the request for a run.
NoChoice == <<>>

\* The guard of the initialisation block.
needs_init(ss) == ~ss.initialized

\* The four selection values both the initialisation and the reset assign.
default_priorities(d) == unique(d, "priority")

default_assignees(d) == unique(d, "assignTo")

default_date_range(d) == <<to_date(ts_min(d)), to_date(ts_max(d))>>

default_subcategories(d, hasCol) ==
    IF hasCol THEN dropna(unique(d, "subCategory")) ELSE {}

init_session(ss, d, hasCol) ==
    IF needs_init(ss)
    THEN [initialized |-> TRUE,
          priorities |-> default_priorities(d),
          assignees |-> default_assignees(d),
          date_range |-> default_date_range(d),
          subcategories |-> default_subcategories(d, hasCol)]
    ELSE ss

\* A reset that leaves the date range as it is.
reset_session_keeps_dates(ss, d, hasCol, button) ==
    IF button
    THEN [ss EXCEPT !.priorities = default_priorities(d),
                    !.assignees = default_assignees(d),
                    !.subcategories = default_subcategories(d, hasCol)]
    ELSE ss

reset_session(ss, d, hasCol, button) ==
    IF button
    THEN [ss EXCEPT !.priorities = default_priorities(d),
                    !.assignees = default_assignees(d),
                    !.date_range = default_date_range(d),
                    !.subcategories = default_subcategories(d, hasCol)]
    ELSE ss

\* ---------------------------------------------------------------- filter
\* The boolean mask of the first filter expression, for one row.  It reads
\* date_range[0] and date_range[1].
filter_mask(r, priorities, assignees, date_range) ==
    /\ isin(r.priority, priorities)
    /\ isin(r.assignTo, assignees)
    /\ cmp_ge(to_date(r.dateCreated), date_range[1])
    /\ cmp_le(to_date(r.dateCreated), date_range[2])

apply_filter(d, hasCol, priorities, assignees, date_range, subcategories) ==
    LET first == SelectSeq(d, LAMBDA r :
                     filter_mask(r, priorities, assignees, date_range))
    IN IF hasCol
       THEN SelectSeq(first, LAMBDA r : isin(r.subCategory, subcategories))
       ELSE first

\* ------------------------------------------------------------ aggregates
RECURSIVE seq_sum(_)
\* The sum of a sequence of numbers.
seq_sum(s) == IF s = <<>> THEN 0 ELSE Head(s) + seq_sum(Tail(s))

\* The rows of a frame whose column col holds v, counted.
count_eq(f, col, v) == Len(SelectSeq(f, LAMBDA r : r[col] = v))

\* round(x, n) of the quotient num / den, as an integer count of units of
\* 1 / scale: to the nearest, a tie to the even neighbour.
round_div(num, den, scale) ==
    LET q == (num * scale) \div den
        r == (num * scale) % den
    IN IF 2 * r > den THEN q + 1
       ELSE IF 2 * r = den THEN q + (q % 2)
       ELSE q

\* A mean that reads an empty column as 0.
mean_or_zero(f, col) ==
    LET present == SelectSeq(f, LAMBDA r : r[col] # NaNNum)
    IN IF present = <<>> THEN 0
       ELSE round_div(seq_sum([i \in 1 .. Len(present) |-> present[i][col]]),
                      Len(present), 100)

\* Series.mean() of a numeric column skips NaN; NaN when nothing is left.
\* The value is kept in hundredths, as round(mean, 2) shows it.
mean(f, col) ==
    LET present == SelectSeq(f, LAMBDA r : r[col] # NaNNum)
    IN IF present = <<>> THEN NaNNum
       ELSE round_div(seq_sum([i \in 1 .. Len(present) |-> present[i][col]]),
                      Len(present), 100)

\* (column == True).mean() * 100, in tenths as the format .1f shows it;
\* the mean of an empty boolean column is NaN.
pass_percentage(f, col) ==
    IF f = <<>> THEN NaNNum
    ELSE round_div(100 * count_eq(f, col, "True"), Len(f), 10)

\* A grouping that keeps a row for every priority label, as a categorical
\* key does.
time_df_every_label(f) ==
    [p \in PriorityLabels |->
        LET g == SelectSeq(f, LAMBDA r : r.priority = p)
        IN <<mean(g, "responseTime"),
             mean(g, "resolutionTime")>>]

\* groupby("Priority")[[...]].mean(): one row per key of the frame, a NaN
\* key has no group.
time_df(f) ==
    [p \in dropna(unique(f, "priority")) |->
        LET g == SelectSeq(f, LAMBDA r : r.priority = p)
        IN <<mean(g, "responseTime"),
             mean(g, "resolutionTime")>>]

\* A breach mask that wants both SLAs missed.
is_breach_both(r) == r.respMet = "False" /\ r.resolMet = "False"

\* The breach mask; a comparison of NaN with False is False.
is_breach(r) == r.respMet = "False" \/ r.resolMet = "False"

breach_df(f) == SelectSeq(f, is_breach)

\* Series.value_counts(): one entry per value that occurs, NaN left out.
value_counts(f, col) ==
    [v \in dropna(unique(f, col)) |-> count_eq(f, col, v)]

breach_count(f) == value_counts(breach_df(f), "assignTo")

response_pie(f) == value_counts(f, "respStatus")

resolution_pie(f) == value_counts(f, "resolStatus")

\* Everything the page computes from filtered_df.
aggregate(f) ==
    [total |-> Len(f),
     avg_response |-> mean(f, "responseTime"),
     respond_pass |-> pass_percentage(f, "respMet"),
     resolution_pass |-> pass_percentage(f, "resolMet"),
     time_df |-> time_df(f),
     breach_count |-> breach_count(f),
     response_pie |-> response_pie(f),
     resolution_pie |-> resolution_pie(f)]

\* The view of a run that raised before it computed anything.
NoView == [total |-> 0]

\* ------------------------------------------------------------ the inputs
\* A rank of the labels, to list the rows of a file in one order.
LabelRank ==
    [High |-> 0, Low |-> 1, Ali |-> 0, Siti |-> 1, Drain |-> 0,
     True |-> 0, False |-> 1, NaN |-> 2]

row_rank(r) ==
    (((((LabelRank[r.priority] * 3 + LabelRank[r.assignTo]) * 3
        + LabelRank[r.subCategory]) * 3
        + LabelRank[r.respMet]) * 3
        + LabelRank[r.resolMet]) * (MaxTs + 4)
        + (r.dateCreated + 3))

\* The frames read_csv can return, up to MaxRows rows.  No operation of the
\* script reads the position of a row, so a file stands for every file with
\* the same rows in another order and is listed once, its rows by rank.
frames(Rows) ==
    UNION {{f \in [1 .. n -> Rows] :
              \A i \in 1 .. n - 1 : row_rank(f[i]) <= row_rank(f[i + 1])} :
           n \in 0 .. MaxRows}

\* Work orders that differ in what the filter reads.
FilterCsvRows(hasCol) ==
    [priority : PriorityLabels,
     assignTo : AssigneeLabels,
     subCategory : IF hasCol THEN SubCategoryLabels \cup {NaN} ELSE {NaN},
     dateCreated : RawDateCells,
     respMet : {"True"},
     resolMet : {"False"},
     responseTime : {10},
     resolutionTime : {50}]

\* Work orders that differ in what the aggregates read.
SlaCsvRows ==
    [priority : PriorityLabels,
     assignTo : AssigneeLabels,
     subCategory : {NaN},
     dateCreated : {0},
     respMet : BoolCells,
     resolMet : BoolCells,
     responseTime : {10},
     resolutionTime : {50}]

\* What the range picker can hold: one date while a range is being picked,
\* or a complete range.
has_nat(dr) == \E i \in 1 .. Len(dr) : dr[i] = NaT

\* A click on day c: a complete range starts over, a started one completes.
click(dr, c) ==
    IF Len(dr) = 1 /\ ~has_nat(dr)
    THEN IF c >= dr[1] THEN <<dr[1], c>> ELSE <<c, dr[1]>>
    ELSE <<c>>

\* ------------------------------------------------------------ one run
\* One run of the script: ss0 is the session state as the front end left it,
\* d the frame load_data returns, button the value of the reset button.
\* chosen keeps the widget values that came with the request for the run,
\* when it is a rerun without the button.
\* st.date_input on a value that holds NaT either raises or passes it on.
run_script(ss0, d, hasCol, button, ev) ==
    /\ df' = d
    /\ hasSubCol' = hasCol
    /\ session' = reset_session(init_session(ss0, d, hasCol), d, hasCol, button)
    /\ event' = ev
    /\ chosen' = IF ss0.initialized /\ ~button THEN Selection(ss0) ELSE NoChoice
    /\ LET priorities == session'.priorities
           assignees == session'.assignees
           date_range == session'.date_range
           subcategories == IF hasCol THEN session'.subcategories ELSE {}
       IN \E date_input_raises \in
                IF has_nat(date_range) THEN BOOLEAN ELSE {FALSE} :
             IF date_input_raises
             THEN /\ outcome' = "DateInputError"
                  /\ filtered_df' = <<>>
                  /\ view' = NoView
             ELSE IF Len(date_range) < 2
             THEN /\ outcome' = "IndexError"
                  /\ filtered_df' = <<>>
                  /\ view' = NoView
             ELSE /\ outcome' = "ok"
                  /\ filtered_df' = apply_filter(d, hasCol, priorities, assignees,
                                                 date_range, subcategories)
                  /\ view' = aggregate(filtered_df')

Init ==
    /\ df = <<>>
    /\ hasSubCol = FALSE
    /\ session = EmptySession
    /\ chosen = NoChoice
    /\ event = "none"
    /\ outcome = "none"
    /\ filtered_df = <<>>
    /\ view = NoView

\* The first run of a session: load_data reads the file.
FirstRun ==
    /\ ~session.initialized
    /\ \E hasCol \in BOOLEAN :
          \E csv \in frames(FilterCsvRows(hasCol)) :
             run_script(session, load_data(csv), hasCol, FALSE, "first")

FirstRunSla ==
    /\ ~session.initialized
    /\ \E csv \in frames(SlaCsvRows) :
             run_script(session, load_data(csv), FALSE, FALSE, "first")

\* A rerun with no widget changed; load_data is served from the cache.
Rerun ==
    /\ session.initialized
    /\ run_script(session, df, hasSubCol, FALSE, "run")

ChangePriorities ==
    /\ session.initialized
    /\ \E S \in SUBSET unique(df, "priority") :
             /\ S # session.priorities
             /\ run_script([session EXCEPT !.priorities = S], df, hasSubCol,
                           FALSE, "run")

ChangeAssignees ==
    /\ session.initialized
    /\ \E S \in SUBSET unique(df, "assignTo") :
             /\ S # session.assignees
             /\ run_script([session EXCEPT !.assignees = S], df, hasSubCol,
                           FALSE, "run")

ChangeDateRange ==
    /\ session.initialized
    /\ outcome # "DateInputError"
    /\ \E c \in Days :
             /\ click(session.date_range, c) # session.date_range
             /\ run_script([session EXCEPT !.date_range = click(@, c)], df,
                           hasSubCol, FALSE, "run")

ChangeSubcategories ==
    /\ session.initialized
    /\ hasSubCol
    /\ outcome # "DateInputError"
    /\ \E S \in SUBSET dropna(unique(df, "subCategory")) :
             /\ S # session.subcategories
             /\ run_script([session EXCEPT !.subcategories = S], df, hasSubCol,
                           FALSE, "run")

ResetFilters ==
    /\ session.initialized
    /\ run_script(session, df, hasSubCol, TRUE, "reset")

Next ==
    \/ FirstRun
    \/ Rerun
    \/ ChangePriorities
    \/ ChangeAssignees
    \/ ChangeDateRange
    \/ ChangeSubcategories
    \/ ResetFilters

Spec == Init /\ [][Next]_vars

NextSla ==
    \/ FirstRunSla
    \/ Rerun
    \/ ChangePriorities
    \/ ChangeAssignees
    \/ ChangeDateRange
    \/ ResetFilters

SlaSpec == Init /\ [][NextSla]_vars

\* ---------------------------------------------------------------- claims
\* The indices of the rows of a frame for which Test holds.
Rows(f, Test(_)) == {i \in 1 .. Len(f) : Test(f[i])}

\* The retention rule of the filter, stated on the selection in session.
Retained(r) ==
    /\ r.priority \in session.priorities
    /\ r.assignTo \in session.assignees
    /\ r.dateCreated # NaT
    /\ session.date_range[1] <= r.dateCreated \div TicksPerDay
    /\ r.dateCreated \div TicksPerDay <= session.date_range[2]
    /\ (~hasSubCol \/ r.subCategory \in session.subcategories)

\* C1 as stated: a run that filters keeps exactly the rows the retention
\* rule admits, and an empty priorities, assignees or subCategories set
\* keeps no row.
C1_AsStated ==
    outcome = "ok" =>
       /\ filtered_df = SelectSeq(df, Retained)
       /\ (\/ session.priorities = {}
           \/ session.assignees = {}
           \/ session.subcategories = {}) => filtered_df = <<>>

\* C1 amended: a run that filters keeps exactly the rows the retention rule
\* admits; an empty priorities or assignees set keeps no row, and an empty
\* subCategories set keeps no row when the frame has a sub-category column.
C1_FilterRule ==
    outcome = "ok" =>
       /\ filtered_df = SelectSeq(df, Retained)
       /\ (\/ session.priorities = {}
           \/ session.assignees = {}
           \/ (hasSubCol /\ session.subcategories = {})) => filtered_df = <<>>

C1_Witness ==
    /\ outcome = "ok"
    /\ hasSubCol
    /\ Len(df) >= 2
    /\ Len(filtered_df) = 1
    /\ session.priorities # {}
    /\ session.assignees # {}
    /\ session.subcategories # {}
    /\ session.date_range[1] < session.date_range[2]

\* The timestamps of the frame that parsed.
ParsedTs == {df[i].dateCreated : i \in Rows(df, LAMBDA r : r.dateCreated # NaT)}

\* C2: the run that follows a press of "Reset Filters" leaves the selection
\* at the full domain of the frame (every priority, every assignee, every
\* sub-category that occurs, and the days of the earliest and the latest
\* creation time), whatever the selection was, and the rows it keeps are the
\* rows that selection retains.
C2_ResetRestoresDefault ==
    event = "reset" =>
       /\ session.priorities = {df[i].priority : i \in 1 .. Len(df)}
       /\ session.assignees = {df[i].assignTo : i \in 1 .. Len(df)}
       /\ session.subcategories =
             {df[i].subCategory :
                 i \in Rows(df, LAMBDA r : hasSubCol /\ r.subCategory # NaN)}
       /\ ParsedTs # {} =>
             /\ Len(session.date_range) = 2
             /\ \E lo, hi \in ParsedTs :
                   /\ \A t \in ParsedTs : lo <= t /\ t <= hi
                   /\ session.date_range[1] = lo \div TicksPerDay
                   /\ session.date_range[2] = hi \div TicksPerDay
             /\ outcome = "ok"
             /\ filtered_df = SelectSeq(df, Retained)

C2_Witness ==
    /\ event = "reset"
    /\ outcome = "ok"
    /\ Cardinality(session.priorities) = 2
    /\ Cardinality(session.assignees) = 2
    /\ session.subcategories # {}
    /\ session.date_range[1] < session.date_range[2]
    /\ Len(filtered_df) >= 2

\* C3 as stated: a run under the full-domain default selection (the first
\* run, and the run after a reset) keeps as many rows as the frame has rows
\* with a parsed creation time.
C3_DefaultKeepsAllDated ==
    (event \in {"first", "reset"} /\ outcome = "ok") =>
       Len(filtered_df) = Cardinality(Rows(df, LAMBDA r : r.dateCreated # NaT))

\* C4: no run keeps a row whose creation time did not parse, whatever the
\* selection, and such a row in the frame never makes a run with a complete
\* date range fail.
C4_NullDateNeverKept ==
    /\ \A i \in 1 .. Len(filtered_df) : filtered_df[i].dateCreated # NaT
    /\ (/\ session.initialized
        /\ Len(session.date_range) = 2
        /\ ~has_nat(session.date_range)) => outcome = "ok"

C4_Witness ==
    /\ outcome = "ok"
    /\ \E i, j \in 1 .. Len(df) :
          /\ df[i].dateCreated = NaT
          /\ df[j].dateCreated # NaT
          /\ filtered_df = <<df[j]>>
    /\ session.date_range = <<0, MaxTs \div TicksPerDay>>

\* C5 as stated: whenever a run over a frame with a parsed creation time
\* reaches the filter, the date range of the selection is a pair of dates
\* (start, end) with start <= end.
C5_DateRangeIsOrderedPair ==
    (outcome \in {"ok", "IndexError"} /\ ParsedTs # {}) =>
       /\ Len(session.date_range) = 2
       /\ session.date_range[1] <= session.date_range[2]

\* A row of the filtered frame that misses an SLA.
Breached(r) == r.respMet = "False" \/ r.resolMet = "False"

\* C6: the breach table of a run has one entry per assignee with at least
\* one filtered row that misses the response or the resolution SLA, and the
\* entry is the number of such rows of that assignee, a row that misses both
\* counted once and a row whose flags are true or null not at all.
C6_BreachCounts ==
    outcome = "ok" =>
       /\ DOMAIN view.breach_count =
             {filtered_df[i].assignTo : i \in Rows(filtered_df, Breached)}
       /\ \A a \in DOMAIN view.breach_count :
             view.breach_count[a] =
                Cardinality({i \in Rows(filtered_df, Breached) :
                                filtered_df[i].assignTo = a})

C6_Witness ==
    /\ outcome = "ok"
    /\ \E i, j \in 1 .. Len(filtered_df) :
          /\ filtered_df[i].assignTo # filtered_df[j].assignTo
          /\ filtered_df[i].respMet = "False"
          /\ filtered_df[i].resolMet = "False"
          /\ filtered_df[j].respMet = "True"
          /\ filtered_df[j].resolMet = NaN
          /\ DOMAIN view.breach_count = {filtered_df[i].assignTo}
          /\ view.breach_count[filtered_df[i].assignTo] = 1

\* The count a status table shows for a status: none when it has no entry.
Shown(pie, status) == IF status \in DOMAIN pie THEN pie[status] ELSE 0

\* C7: in both status tables of a run, PASS counts the filtered rows whose
\* SLA flag is true, FAIL those whose flag is false, a row whose flag is null
\* is in neither, and the two counts and the null rows add up to the number
\* of filtered rows.
C7_StatusDistribution ==
    outcome = "ok" =>
       /\ DOMAIN view.response_pie \subseteq {"PASS", "FAIL"}
       /\ DOMAIN view.resolution_pie \subseteq {"PASS", "FAIL"}
       /\ Shown(view.response_pie, "PASS") =
             Cardinality(Rows(filtered_df, LAMBDA r : r.respMet = "True"))
       /\ Shown(view.response_pie, "FAIL") =
             Cardinality(Rows(filtered_df, LAMBDA r : r.respMet = "False"))
       /\ Shown(view.resolution_pie, "PASS") =
             Cardinality(Rows(filtered_df, LAMBDA r : r.resolMet = "True"))
       /\ Shown(view.resolution_pie, "FAIL") =
             Cardinality(Rows(filtered_df, LAMBDA r : r.resolMet = "False"))
       /\ Shown(view.response_pie, "PASS") + Shown(view.response_pie, "FAIL")
             + Cardinality(Rows(filtered_df, LAMBDA r : r.respStatus = NaN))
          = view.total
       /\ Shown(view.resolution_pie, "PASS") + Shown(view.resolution_pie, "FAIL")
             + Cardinality(Rows(filtered_df, LAMBDA r : r.resolStatus = NaN))
          = view.total
       /\ view.total = Len(filtered_df)

C7_Witness ==
    /\ outcome = "ok"
    /\ Len(filtered_df) = 2
    /\ \E i, j \in 1 .. 2 :
          /\ filtered_df[i].respMet = NaN
          /\ filtered_df[j].respMet = "True"
          /\ filtered_df[i].resolMet = "False"
          /\ filtered_df[j].resolMet = NaN
    /\ Shown(view.response_pie, "PASS") = 1
    /\ Shown(view.response_pie, "FAIL") = 0
    /\ Shown(view.resolution_pie, "FAIL") = 1

\* C8: a run whose selection filters out every row computes every aggregate:
\* the total is 0, the mean response time and both PASS percentages are NaN,
\* and the table of mean times, the breach table and both status tables are
\* empty.
C8_EmptySubset ==
    (outcome = "ok" /\ filtered_df = <<>>) =>
       /\ view.total = 0
       /\ view.avg_response = NaNNum
       /\ view.respond_pass = NaNNum
       /\ view.resolution_pass = NaNNum
       /\ DOMAIN view.breach_count = {}
       /\ DOMAIN view.time_df = {}
       /\ DOMAIN view.response_pie = {}
       /\ DOMAIN view.resolution_pie = {}

C8_Witness ==
    /\ outcome = "ok"
    /\ event = "run"
    /\ filtered_df = <<>>
    /\ \E i, j \in 1 .. Len(df) :
          /\ df[i].respMet = "True"
          /\ df[j].resolMet = "False"
    /\ view.total = 0
    /\ view.avg_response = NaNNum

\* C9: the table of mean times of a run has one entry for each priority of
\* the filtered rows and none for any other priority of the frame, and the
\* numbers of filtered rows of its entries add up to the number of filtered
\* rows.
C9_GroupsPartitionSubset ==
    outcome = "ok" =>
       /\ DOMAIN view.time_df =
             {filtered_df[i].priority : i \in 1 .. Len(filtered_df)}
       /\ seq_sum([i \in 1 .. Len(filtered_df) |->
                     IF filtered_df[i].priority \in DOMAIN view.time_df
                     THEN 1 ELSE 0]) = view.total
       /\ \A p \in DOMAIN view.time_df, q \in DOMAIN view.time_df :
             p # q => Rows(filtered_df, LAMBDA r : r.priority = p)
                         \cap Rows(filtered_df, LAMBDA r : r.priority = q) = {}

C9_Witness ==
    /\ outcome = "ok"
    /\ \E i, j \in 1 .. Len(df) :
          /\ df[i].priority # df[j].priority
          /\ filtered_df = <<df[j]>>
          /\ DOMAIN view.time_df = {df[j].priority}

\* C10: the selection is set to the full-domain default by the first run of
\* a session, which sets 'initialized', and by no later run in which the
\* reset button is not pressed: such a run ends with the widget values that
\* came with its request in the session state, so what the user selected is
\* still there.
C10_SelectionPersists ==
    /\ session.initialized <=> event # "none"
    /\ event = "first" =>
          Selection(session) =
             <<default_priorities(df), default_assignees(df),
               default_date_range(df), default_subcategories(df, hasSubCol)>>
    /\ event = "run" => Selection(session) = chosen

C10_Witness ==
    /\ event = "run"
    /\ outcome = "ok"
    /\ session.priorities # default_priorities(df)
    /\ session.assignees # default_assignees(df)
    /\ session.date_range # default_date_range(df)
    /\ session.subcategories # default_subcategories(df, hasSubCol)

====
